---- MODULE Spec2Model ----
(***************************************************************************)
(* Parse.Cloud (src/src/Cloud.js): the four public entry points run,       *)
(* getJobsData, startJob and getJobStatus, the DefaultController they      *)
(* delegate to, and the collaborators they consume (the CoreManager        *)
(* registry, encode/decode, the REST transport and ParseQuery).            *)
(***************************************************************************)
EXTENDS Naturals, Sequences, FiniteSets, TLC

VARIABLES
    cloudController,  \* the controller held by the CoreManager registry
    calls,            \* the public calls made so far, with their futures
    controllerCalls,  \* every method invocation received by a cloud controller
    requests,         \* every RESTController.request issued
    queries           \* every ParseQuery.get issued

vars == <<cloudController, calls, controllerCalls, requests, queries>>

(***************************************************************************)
(* Bounds of the model.                                                    *)
(***************************************************************************)
MaxCalls == 2

(***************************************************************************)
(* JavaScript values.  A value is a record [t, v, f]: t is the kind, v the *)
(* literal of a scalar (or the class of an error, the objectId of a        *)
(* ParseObject), f the own enumerable properties, keyed by text (an array  *)
(* has the keys "0", "1", ... as in JavaScript).                           *)
(***************************************************************************)
NoProps == [k \in {} |-> 0]

Val(t, v, f) == [t |-> t, v |-> v, f |-> f]

Undefined == Val("undefined", "", NoProps)
Null == Val("null", "", NoProps)
Bool(b) == Val("boolean", b, NoProps)
Num(n) == Val("number", n, NoProps)
Str(s) == Val("string", s, NoProps)
Arr(f) == Val("array", "", f)
Obj(f) == Val("object", "", f)
ParseObj(id) == Val("parseobject", id, NoProps)
EmptyObj == Obj(NoProps)

\* typeof v
TypeOf(v) ==
    CASE v.t = "undefined" -> "undefined"
      [] v.t = "boolean" -> "boolean"
      [] v.t = "number" -> "number"
      [] v.t = "string" -> "string"
      [] OTHER -> "object"

\* ToBoolean(v): the values an `if (v)` or `v || w` treats as true
Truthy(v) ==
    CASE v.t \in {"undefined", "null"} -> FALSE
      [] v.t = "boolean" -> v.v = "true"
      [] v.t = "number" -> v.v # "0"
      [] v.t = "string" -> v.v # ""
      [] OTHER -> TRUE

\* Object.keys(v) of a non-null object
Keys(v) == DOMAIN v.f

\* v.hasOwnProperty(k)
HasOwnProperty(v, k) == k \in DOMAIN v.f

\* v.k for a value that is neither null nor undefined
Get(v, k) == IF k \in DOMAIN v.f THEN v.f[k] ELSE Undefined

\* v with v.k = w
Put(v, k, w) == [v EXCEPT !.f = (k :> w) @@ v.f]

\* A keyed mapping proper: an object that is no array, error or ParseObject
IsKeyedMapping(v) == v.t = "object"

(***************************************************************************)
(* Errors.                                                                 *)
(***************************************************************************)
TypeError(message) == Val("error", "TypeError", "message" :> Str(message))

ParseError(code, message) ==
    Val("error", "ParseError", ("code" :> Str(code)) @@ ("message" :> Str(message)))

INVALID_JSON == "INVALID_JSON"

InvalidResponseError == ParseError(INVALID_JSON, "The server returned an invalid response.")

\* Object.keys(null): "Cannot convert undefined or null to object"
KeysOfNullError == TypeError("Cannot convert undefined or null to object")

(***************************************************************************)
(* The generic encoder and decoder (./encode, ./decode).  A saved          *)
(* ParseObject travels as a Pointer mapping; an unsaved one cannot be      *)
(* encoded when objects are disallowed; containers are converted member by *)
(* member; scalars pass through.                                           *)
(***************************************************************************)
ClassName == "Item"

Pointer(id) ==
    Obj(("__type" :> Str("Pointer")) @@ ("className" :> Str(ClassName))
        @@ ("objectId" :> Str(id)))

IsPointer(v) ==
    /\ v.t = "object"
    /\ HasOwnProperty(v, "__type")
    /\ v.f["__type"] = Str("Pointer")
    /\ HasOwnProperty(v, "objectId")

EncodeError == Val("error", "Error", "message" :> Str("Parse Objects not allowed here"))

RECURSIVE EncodeThrows(_)
\* encode(v, true) throws
EncodeThrows(v) ==
    \/ v.t = "parseobject" /\ v.v = ""
    \/ \E k \in DOMAIN v.f : EncodeThrows(v.f[k])

RECURSIVE encode(_)
\* encode(v, true), for a v it does not throw on
encode(v) ==
    IF v.t = "parseobject" THEN Pointer(v.v)
    ELSE IF v.t \in {"array", "object"}
    THEN [v EXCEPT !.f = [k \in DOMAIN v.f |-> encode(v.f[k])]]
    ELSE v

RECURSIVE decode(_)
\* decode(v)
decode(v) ==
    IF IsPointer(v) THEN ParseObj(v.f["objectId"].v)
    ELSE IF v.t \in {"array", "object"}
    THEN [v EXCEPT !.f = [k \in DOMAIN v.f |-> decode(v.f[k])]]
    ELSE v

(***************************************************************************)
(* Records of the logs.                                                    *)
(***************************************************************************)
Controllers == {"DefaultController", "MockController"}

\* a public call and the state of what it returned: "thrown" (it threw to
\* the caller and returned nothing), or the state of the returned future;
\* registered is the controller the registry held when the call was made
Call(op, name, data, options, state, value) ==
    [op |-> op, name |-> name, data |-> data, options |-> options,
     registered |-> cloudController, state |-> state, value |-> value,
     settled |-> 0]

ControllerCall(id, controller, method, name, data, options) ==
    [call |-> id, controller |-> controller, method |-> method,
     name |-> name, data |-> data, options |-> options]

Request(id, via, method, path, body, options) ==
    [call |-> id, via |-> via, method |-> method, path |-> path, body |-> body,
     options |-> options, state |-> "pending", reply |-> Undefined]

Query(id, className, objectId, options) ==
    [call |-> id, className |-> className, objectId |-> objectId,
     options |-> options, state |-> "pending"]

\* what a controller method did before returning: threw, or returned a
\* future after issuing the requests reqs
Returned(reqs) == [thrown |-> FALSE, error |-> Undefined, reqs |-> reqs]
Threw(error) == [thrown |-> TRUE, error |-> error, reqs |-> <<>>]

(***************************************************************************)
(* DefaultController.                                                      *)
(***************************************************************************)
\* a variant that sends the request a second time
DefaultController_runRetry(id, name, data, options) ==
    IF EncodeThrows(data) THEN Threw(EncodeError)
    ELSE LET req == Request(id, "run", "POST", "functions/" \o name.v,
                            encode(data), options)
         IN Returned(<<req, req>>)

DefaultController_run(id, name, data, options) ==
    IF EncodeThrows(data) THEN Threw(EncodeError)
    ELSE Returned(<<Request(id, "run", "POST", "functions/" \o name.v,
                            encode(data), options)>>)

\* a variant without the check of the reply's shape
run_thenUnchecked(res) ==
    LET decoded == decode(res)
    IN IF Truthy(decoded) /\ HasOwnProperty(decoded, "result")
       THEN [state |-> "resolved", value |-> decoded.f["result"]]
       ELSE [state |-> "resolved", value |-> Undefined]

\* the fulfilment handler of DefaultController.run: the settlement of the
\* returned future for the transport's reply res
run_then(res) ==
    IF TypeOf(res) = "object" /\ res.t = "null"
    THEN [state |-> "rejected", value |-> KeysOfNullError]
    ELSE IF TypeOf(res) = "object" /\ Cardinality(Keys(res)) > 0
            /\ ~HasOwnProperty(res, "result")
    THEN [state |-> "rejected", value |-> InvalidResponseError]
    ELSE LET decoded == decode(res)
         IN IF Truthy(decoded) /\ HasOwnProperty(decoded, "result")
            THEN [state |-> "resolved", value |-> decoded.f["result"]]
            ELSE [state |-> "resolved", value |-> Undefined]

DefaultController_getJobsData(id, options) ==
    Returned(<<Request(id, "getJobsData", "GET", "cloud_code/jobs/data", Null, options)>>)

DefaultController_startJob(id, name, data, options) ==
    IF EncodeThrows(data) THEN Threw(EncodeError)
    ELSE Returned(<<Request(id, "startJob", "POST", "jobs/" \o name.v,
                            encode(data), options)>>)

\* a substituted controller: it takes the call and issues no request
MockController(id) == Returned(<<>>)

(***************************************************************************)
(* The CoreManager registry.                                               *)
(***************************************************************************)
getCloudController == cloudController

setCloudController(controller) ==
    /\ cloudController' = controller
    /\ UNCHANGED <<calls, controllerCalls, requests, queries>>

(***************************************************************************)
(* The public entry points.  Everything an entry point does before it      *)
(* returns (or throws) is one step: the argument check, the options        *)
(* record, the controller method and the request that method issues.       *)
(***************************************************************************)
\* the method of the controller c
Invoke(c, method, id, name, data, options) ==
    IF c = "DefaultController"
    THEN CASE method = "run" -> DefaultController_run(id, name, data, options)
           [] method = "getJobsData" -> DefaultController_getJobsData(id, options)
           [] method = "startJob" -> DefaultController_startJob(id, name, data, options)
    ELSE MockController(id)

\* the entry point op hands method(name, data, requestOptions) to the
\* controller c and returns what it returns
Delegate(c, op, method, name, data, options, requestOptions) ==
    LET id == Len(calls) + 1
        r == Invoke(c, method, id, name, data, requestOptions)
    IN /\ controllerCalls' = Append(controllerCalls,
              ControllerCall(id, c, method, name, data, requestOptions))
       /\ requests' = requests \o r.reqs
       /\ calls' = Append(calls,
              IF r.thrown THEN Call(op, name, data, options, "thrown", r.error)
              ELSE Call(op, name, data, options, "pending", Undefined))
       /\ UNCHANGED <<cloudController, queries>>

\* the entry point op throws error to its caller
Throw(op, name, data, options, error) ==
    /\ calls' = Append(calls, Call(op, name, data, options, "thrown", error))
    /\ UNCHANGED <<cloudController, controllerCalls, requests, queries>>

\* a variant that forgets the empty text
InvalidNameTypeOnly(name) == TypeOf(name) # "string"

\* typeof name !== 'string' || name.length === 0
InvalidName(name) == TypeOf(name) # "string" \/ Len(name.v) = 0

\* a variant that hands the caller's options on as they are
RunRequestOptionsUnfiltered(options) == IF Truthy(options) THEN options ELSE EmptyObj

\* the requestOptions of run
RunRequestOptions(options) ==
    LET opts == IF Truthy(options) THEN options ELSE EmptyObj
        r0 == EmptyObj
        r1 == IF Truthy(Get(opts, "useMasterKey"))
              THEN Put(r0, "useMasterKey", Get(opts, "useMasterKey")) ELSE r0
        r2 == IF Truthy(Get(opts, "sessionToken"))
              THEN Put(r1, "sessionToken", Get(opts, "sessionToken")) ELSE r1
        r3 == IF Truthy(Get(opts, "context")) /\ TypeOf(Get(opts, "context")) = "object"
              THEN Put(r2, "context", Get(opts, "context")) ELSE r2
    IN r3

\* the requestOptions of getJobsData and startJob, the options of getJobStatus
MasterKeyOptions == Obj("useMasterKey" :> Bool("true"))

run(name, data, options) ==
    /\ Len(calls) < MaxCalls
    /\ IF InvalidName(name)
       THEN Throw("run", name, data, options,
                  TypeError("Cloud function name must be a string."))
       ELSE Delegate(getCloudController, "run", "run", name, data, options,
                     RunRequestOptions(options))

\* a variant that goes to the DefaultController past the registry
getJobsDataDirect(extra) ==
    /\ Len(calls) < MaxCalls
    /\ Delegate("DefaultController", "getJobsData", "getJobsData", Undefined, Undefined,
                extra, MasterKeyOptions)

\* extra: whatever the caller passes to a function that takes no parameter
getJobsData(extra) ==
    /\ Len(calls) < MaxCalls
    /\ Delegate(getCloudController, "getJobsData", "getJobsData", Undefined, Undefined,
                extra, MasterKeyOptions)

\* a variant that lets a third argument replace the forced options
startJobCallerOptions(name, data, extra) ==
    /\ Len(calls) < MaxCalls
    /\ IF InvalidName(name)
       THEN Throw("startJob", name, data, extra,
                  TypeError("Cloud job name must be a string."))
       ELSE Delegate(getCloudController, "startJob", "startJob", name, data, extra,
                     IF Truthy(extra) THEN extra ELSE MasterKeyOptions)

\* extra: a third argument, which the function does not take
startJob(name, data, extra) ==
    /\ Len(calls) < MaxCalls
    /\ IF InvalidName(name)
       THEN Throw("startJob", name, data, extra,
                  TypeError("Cloud job name must be a string."))
       ELSE Delegate(getCloudController, "startJob", "startJob", name, data, extra,
                     MasterKeyOptions)

getJobStatus(jobStatusId, extra) ==
    /\ Len(calls) < MaxCalls
    /\ queries' = Append(queries,
           Query(Len(calls) + 1, "_JobStatus", jobStatusId, MasterKeyOptions))
    /\ calls' = Append(calls,
           Call("getJobStatus", jobStatusId, Undefined, extra, "pending", Undefined))
    /\ UNCHANGED <<cloudController, controllerCalls, requests>>

(***************************************************************************)
(* The collaborators settle what they returned.                            *)
(***************************************************************************)
\* a variant with one handler slot shared by all calls: the latest call's
CallOfLatest(r) == Len(calls)

\* the call whose future hangs on request r
CallOf(r) == requests[r].call

\* the future of call i settles
Settle(i, state, value) ==
    calls' = [calls EXCEPT ![i].state = state, ![i].value = value,
                           ![i].settled = @ + 1]

\* the transport resolves request r with reply
TransportResolve(r, reply) ==
    /\ requests[r].state = "pending"
    /\ requests' = [requests EXCEPT ![r].state = "resolved", ![r].reply = reply]
    /\ LET out == IF requests[r].via = "run" THEN run_then(reply)
                  ELSE [state |-> "resolved", value |-> reply]
       IN Settle(CallOf(r), out.state, out.value)
    /\ UNCHANGED <<cloudController, controllerCalls, queries>>

\* the transport rejects request r with error
TransportReject(r, error) ==
    /\ requests[r].state = "pending"
    /\ requests' = [requests EXCEPT ![r].state = "rejected", ![r].reply = error]
    /\ Settle(CallOf(r), "rejected", error)
    /\ UNCHANGED <<cloudController, controllerCalls, queries>>

ObjectNotFoundError == ParseError("OBJECT_NOT_FOUND", "Object not found.")

\* the query collaborator finds the record of query q
QueryResolve(q) ==
    /\ queries[q].state = "pending"
    /\ TypeOf(queries[q].objectId) = "string"
    /\ queries' = [queries EXCEPT ![q].state = "resolved"]
    /\ Settle(queries[q].call, "resolved", ParseObj(queries[q].objectId.v))
    /\ UNCHANGED <<cloudController, controllerCalls, requests>>

\* the query collaborator finds no record for query q
QueryReject(q) ==
    /\ queries[q].state = "pending"
    /\ queries' = [queries EXCEPT ![q].state = "rejected"]
    /\ Settle(queries[q].call, "rejected", ObjectNotFoundError)
    /\ UNCHANGED <<cloudController, controllerCalls, requests>>

(***************************************************************************)
(* The inputs the environment draws from.                                  *)
(***************************************************************************)
ValidName == Str("fn")
Names == {ValidName, Str(""), Num("7")}

PlainPayload == Obj("a" :> Num("1"))
UnsavedPayload == Obj("item" :> ParseObj(""))
SavedPayload == Obj("item" :> ParseObj("o1"))
Payloads == {SavedPayload, UnsavedPayload}

NoMasterKeyOptions == Obj(("useMasterKey" :> Bool("false")) @@ ("sessionToken" :> Str("tok")))
OptionArgs == {Undefined, NoMasterKeyOptions}

ResultReply == Obj("result" :> Num("1"))
FooReply == Obj("foo" :> Num("1"))
Replies == {ResultReply, FooReply}

\* every kind of options argument: none, unset and set options, every kind
\* of context value, an option run does not know
OptionsWith(k, v) == Obj(k :> v)
AllOptions ==
    Obj(("useMasterKey" :> Bool("true")) @@ ("sessionToken" :> Str("tok"))
        @@ ("context" :> Obj("a" :> Num("1"))) @@ ("installationId" :> Str("i1")))
RichOptionArgs ==
    {Undefined, Null, EmptyObj, AllOptions,
     OptionsWith("useMasterKey", Bool("true")), OptionsWith("useMasterKey", Bool("false")),
     OptionsWith("sessionToken", Str("tok")), OptionsWith("sessionToken", Str("")),
     OptionsWith("installationId", Str("i1"))}
    \cup {OptionsWith("context", c) :
             c \in {Null, Bool("true"), Bool("false"), Num("1"), Num("0"), Str("ctx"), Str(""),
                    Arr("0" :> Num("1")), Arr(NoProps), Obj("a" :> Num("1")), EmptyObj}}

\* every kind of reply: mappings with and without result, the echo of an
\* encoded payload, null, and values that are no mapping
EchoReply == Obj("result" :> encode(SavedPayload))
RichReplies ==
    {ResultReply, FooReply, EmptyObj, EchoReply, Null, Undefined,
     Obj(("result" :> Num("2")) @@ ("foo" :> Num("1"))), Obj("result" :> Null),
     Str("ok"), Num("0"), Bool("true"), Arr(NoProps), Arr("0" :> Num("1"))}

ConnectionFailedError == ParseError("CONNECTION_FAILED", "XMLHttpRequest failed")
ScriptFailedError == ParseError("SCRIPT_FAILED", "The function failed.")
TransportErrors == {ConnectionFailedError, ScriptFailedError}

JobStatusIds == {Str("abc123")}

(***************************************************************************)
(* The specification.                                                      *)
(***************************************************************************)
\* module load: CoreManager.setCloudController(DefaultController)
Init ==
    /\ cloudController = "DefaultController"
    /\ calls = <<>>
    /\ controllerCalls = <<>>
    /\ requests = <<>>
    /\ queries = <<>>

Register == \E c \in Controllers : setCloudController(c)
CallRun == \E n \in Names, d \in Payloads, o \in OptionArgs : run(n, d, o)
CallGetJobsData == \E x \in OptionArgs : getJobsData(x)
CallStartJob == \E n \in Names, d \in Payloads, x \in OptionArgs : startJob(n, d, x)
CallGetJobStatus == \E j \in JobStatusIds, x \in OptionArgs : getJobStatus(j, x)
Resolve == \E r \in DOMAIN requests, v \in Replies : TransportResolve(r, v)
Reject == \E r \in DOMAIN requests : TransportReject(r, ConnectionFailedError)
Found == \E q \in DOMAIN queries : QueryResolve(q)
NotFound == \E q \in DOMAIN queries : QueryReject(q)

Next ==
    \/ Register
    \/ CallRun
    \/ CallGetJobsData
    \/ CallStartJob
    \/ CallGetJobStatus
    \/ Resolve
    \/ Reject
    \/ Found
    \/ NotFound

Spec == Init /\ [][Next]_vars

\* run over every kind of options argument
CallRunOptions == \E o \in RichOptionArgs : run(ValidName, SavedPayload, o)
ResolveResult == \E r \in DOMAIN requests : TransportResolve(r, ResultReply)

NextOptions ==
    \/ CallRunOptions
    \/ ResolveResult

SpecOptions == Init /\ [][NextOptions]_vars

\* run over every kind of reply and transport error
CallRunPayload == \E d \in {PlainPayload, SavedPayload} : run(ValidName, d, Undefined)
ResolveAny == \E r \in DOMAIN requests, v \in RichReplies : TransportResolve(r, v)
RejectAny == \E r \in DOMAIN requests, e \in TransportErrors : TransportReject(r, e)

NextReplies ==
    \/ CallRunPayload
    \/ ResolveAny
    \/ RejectAny

SpecReplies == Init /\ [][NextReplies]_vars

(***************************************************************************)
(* What the claims speak of.                                               *)
(***************************************************************************)
RequestsFor(i) == {r \in DOMAIN requests : requests[r].call = i}
ControllerCallsFor(i) == {k \in DOMAIN controllerCalls : controllerCalls[k].call = i}
QueriesFor(i) == {q \in DOMAIN queries : queries[q].call = i}

\* a name that is a non-empty text
NameIsText(name) == name.t = "string" /\ name.v # ""

\* a reply that is a non-null keyed mapping with at least one key and no result
MappingWithoutResult(reply) ==
    reply.t = "object" /\ DOMAIN reply.f # {} /\ "result" \notin DOMAIN reply.f

\* the requests run issued that the transport resolved
ResolvedRunRequests ==
    {r \in DOMAIN requests : requests[r].via = "run" /\ requests[r].state = "resolved"}

(***************************************************************************)
(* C1: when the transport resolves a run request with a reply that is not  *)
(* a non-null keyed mapping with at least one key and no result (an empty  *)
(* mapping, a mapping with result, null, a value that is no mapping), the  *)
(* returned future resolves: with the decoded result when the decoded      *)
(* reply has one, with undefined otherwise.                                *)
(***************************************************************************)
C1_ResolvesUnlessMappingWithoutResult ==
    \A r \in ResolvedRunRequests :
        LET reply == requests[r].reply
            call == calls[requests[r].call]
        IN ~MappingWithoutResult(reply) =>
              /\ call.state = "resolved"
              /\ call.value = IF "result" \in DOMAIN decode(reply).f
                              THEN decode(reply).f["result"] ELSE Undefined

(***************************************************************************)
(* C2: when the transport resolves a run request with a non-null keyed     *)
(* mapping that has at least one key and no result, the returned future    *)
(* is rejected with the ParseError of code INVALID_JSON and the fixed      *)
(* message, which is none of the errors the transport rejects with.        *)
(***************************************************************************)
C2_MappingWithoutResultRejects ==
    \A r \in ResolvedRunRequests :
        LET call == calls[requests[r].call]
        IN MappingWithoutResult(requests[r].reply) =>
              /\ call.state = "rejected"
              /\ call.value.v = "ParseError"
              /\ call.value.f["code"] = Str("INVALID_JSON")
              /\ call.value.f["message"] = Str("The server returned an invalid response.")
              /\ call.value \notin TransportErrors

C2_Witness ==
    \E r \in ResolvedRunRequests :
        /\ requests[r].reply = FooReply
        /\ calls[requests[r].call].state = "rejected"

(***************************************************************************)
(* C3: run and startJob called with a name that is the empty text or no    *)
(* text throw a TypeError to the caller; no controller method is called    *)
(* and no request is issued, whatever the payload and the options.         *)
(***************************************************************************)
C3_InvalidNameThrows ==
    \A i \in DOMAIN calls :
        (calls[i].op \in {"run", "startJob"} /\ ~NameIsText(calls[i].name)) =>
            /\ calls[i].state = "thrown"
            /\ calls[i].value.v = "TypeError"
            /\ ControllerCallsFor(i) = {}
            /\ RequestsFor(i) = {}

C3_Witness ==
    /\ \E i \in DOMAIN calls :
          /\ calls[i].op = "run" /\ calls[i].name = Str("")
          /\ calls[i].data = UnsavedPayload /\ calls[i].options = NoMasterKeyOptions
          /\ calls[i].state = "thrown"
    /\ \E i \in DOMAIN calls :
          /\ calls[i].op = "startJob" /\ calls[i].name = Num("7")
          /\ calls[i].state = "thrown"

(***************************************************************************)
(* C4: with the DefaultController registered, run and startJob called with *)
(* a non-empty text name and an encodable payload have issued exactly one  *)
(* request, a POST to functions/<name> (run) or jobs/<name> (startJob)     *)
(* with the encoded payload as body, in every state that follows the      *)
(* call: also after the transport rejected or the reply was invalid.       *)
(***************************************************************************)
C4_ExactlyOneRequest ==
    \A i \in DOMAIN calls :
        (/\ calls[i].op \in {"run", "startJob"}
         /\ NameIsText(calls[i].name)
         /\ ~EncodeThrows(calls[i].data)
         /\ calls[i].registered = "DefaultController") =>
            /\ Cardinality(RequestsFor(i)) = 1
            /\ \A r \in RequestsFor(i) :
                  /\ requests[r].method = "POST"
                  /\ requests[r].path =
                        (IF calls[i].op = "run" THEN "functions/" ELSE "jobs/")
                            \o calls[i].name.v
                  /\ requests[r].body = encode(calls[i].data)

C4_Witness ==
    /\ \E i \in DOMAIN calls :
          /\ calls[i].op = "run" /\ calls[i].state = "rejected"
          /\ calls[i].value = InvalidResponseError
          /\ Cardinality(RequestsFor(i)) = 1
    /\ \E i \in DOMAIN calls :
          /\ calls[i].op = "startJob" /\ calls[i].state = "rejected"
          /\ calls[i].value = ConnectionFailedError
          /\ \E r \in RequestsFor(i) : requests[r].path = "jobs/fn"

(***************************************************************************)
(* C5: run and startJob called with a non-empty text name throw nothing to *)
(* the caller: every failure past the name check (the encoder refusing the *)
(* payload, a transport failure, an invalid reply) is a rejection of the   *)
(* returned future.                                                        *)
(***************************************************************************)
C5_NoThrowPastNameCheck ==
    \A i \in DOMAIN calls :
        (calls[i].op \in {"run", "startJob"} /\ NameIsText(calls[i].name)) =>
            calls[i].state # "thrown"

(***************************************************************************)
(* C6: every controller call and every request made for getJobsData or     *)
(* startJob, and every query lookup of getJobStatus, carries options with  *)
(* useMasterKey = true, whatever the caller passed.                        *)
(***************************************************************************)
C6_MasterKeyForced ==
    /\ \A k \in DOMAIN controllerCalls :
          controllerCalls[k].method \in {"getJobsData", "startJob"} =>
              /\ "useMasterKey" \in DOMAIN controllerCalls[k].options.f
              /\ controllerCalls[k].options.f["useMasterKey"] = Bool("true")
    /\ \A r \in DOMAIN requests :
          requests[r].via \in {"getJobsData", "startJob"} =>
              /\ "useMasterKey" \in DOMAIN requests[r].options.f
              /\ requests[r].options.f["useMasterKey"] = Bool("true")
    /\ \A q \in DOMAIN queries :
          /\ "useMasterKey" \in DOMAIN queries[q].options.f
          /\ queries[q].options.f["useMasterKey"] = Bool("true")
    /\ \A i \in DOMAIN calls :
          (calls[i].op \in {"getJobsData", "startJob"} /\ calls[i].state # "thrown") =>
              ControllerCallsFor(i) # {}
    /\ \A i \in DOMAIN calls : calls[i].op = "getJobStatus" => QueriesFor(i) # {}

C6_Witness ==
    /\ \E r \in DOMAIN requests :
          /\ requests[r].via = "startJob"
          /\ calls[requests[r].call].options = NoMasterKeyOptions
    /\ \E r \in DOMAIN requests :
          /\ requests[r].via = "getJobsData"
          /\ calls[requests[r].call].options = NoMasterKeyOptions

\* the controller calls run made
RunControllerCalls == {k \in DOMAIN controllerCalls : controllerCalls[k].method = "run"}

\* the caller of the call behind controller call k set option o to value v
CallerSet(k, o, v) ==
    LET given == calls[controllerCalls[k].call].options
    IN given.t = "object" /\ o \in DOMAIN given.f /\ given.f[o] = v

(***************************************************************************)
(* C7: the options record run hands to the controller has keys only among  *)
(* useMasterKey, sessionToken and context; each key it has was set by the  *)
(* caller to the value it carries, and that value is no false, null,       *)
(* undefined, zero or empty-text placeholder; without an options argument  *)
(* the record is empty.                                                    *)
(***************************************************************************)
C7_OnlySetOptionsForwarded ==
    \A k \in RunControllerCalls :
        LET sent == controllerCalls[k].options
            given == calls[controllerCalls[k].call].options
        IN /\ sent.t = "object"
           /\ DOMAIN sent.f \subseteq {"useMasterKey", "sessionToken", "context"}
           /\ \A o \in DOMAIN sent.f :
                 /\ CallerSet(k, o, sent.f[o])
                 /\ sent.f[o] \notin {Bool("false"), Null, Undefined, Str(""), Num("0")}
           /\ given \in {Undefined, Null, EmptyObj} => sent = EmptyObj

C7_Witness ==
    /\ \E k \in RunControllerCalls :
          /\ calls[controllerCalls[k].call].options = AllOptions
          /\ DOMAIN controllerCalls[k].options.f = {"useMasterKey", "sessionToken", "context"}
    /\ \E k \in RunControllerCalls :
          /\ calls[controllerCalls[k].call].options = OptionsWith("useMasterKey", Bool("false"))
          /\ controllerCalls[k].options = EmptyObj

(***************************************************************************)
(* C8: run forwards the caller's context option if and only if its value   *)
(* is a non-null keyed mapping; for every other kind of value (absent,     *)
(* null, boolean, number, text, ordered sequence) the options handed on    *)
(* have no context key, and the call goes on.                              *)
(***************************************************************************)
C8_ContextIffKeyedMapping ==
    /\ \A k \in RunControllerCalls :
          LET given == calls[controllerCalls[k].call].options
          IN "context" \in DOMAIN controllerCalls[k].options.f
                <=> /\ given.t = "object"
                    /\ "context" \in DOMAIN given.f
                    /\ IsKeyedMapping(given.f["context"])
    /\ \A i \in DOMAIN calls :
          (calls[i].op = "run" /\ NameIsText(calls[i].name)) =>
              calls[i].state # "thrown" /\ ControllerCallsFor(i) # {}

(***************************************************************************)
(* C9 as stated: each of the four operations, when it gets past its        *)
(* argument check, reaches the controller the registry holds at the moment *)
(* of the call.                                                            *)
(***************************************************************************)
C9_AllFourReachRegisteredController ==
    \A i \in DOMAIN calls :
        (calls[i].op \in {"getJobsData", "getJobStatus"} \/ NameIsText(calls[i].name)) =>
            \E k \in ControllerCallsFor(i) :
                controllerCalls[k].controller = calls[i].registered

(***************************************************************************)
(* C9 amended: run, getJobsData and startJob, when they get past their     *)
(* argument check, call exactly one controller, the one the registry holds *)
(* at the moment of the call, and issue a request only through it (none    *)
(* when a substitute is registered); getJobStatus calls no cloud           *)
(* controller and goes to the query collaborator, whatever is registered.  *)
(***************************************************************************)
C9_ThreeReachRegisteredController ==
    \A i \in DOMAIN calls :
        /\ (calls[i].op = "getJobsData"
               \/ (calls[i].op \in {"run", "startJob"} /\ NameIsText(calls[i].name))) =>
              /\ Cardinality(ControllerCallsFor(i)) = 1
              /\ \A k \in ControllerCallsFor(i) :
                    /\ controllerCalls[k].controller = calls[i].registered
                    /\ controllerCalls[k].method = calls[i].op
              /\ calls[i].registered # "DefaultController" => RequestsFor(i) = {}
              /\ QueriesFor(i) = {}
        /\ calls[i].op = "getJobStatus" =>
              /\ ControllerCallsFor(i) = {}
              /\ RequestsFor(i) = {}
              /\ Cardinality(QueriesFor(i)) = 1
              /\ \A q \in QueriesFor(i) :
                    /\ queries[q].className = "_JobStatus"
                    /\ queries[q].objectId = calls[i].name

C9_Witness ==
    /\ Len(calls) = 2
    /\ calls[1].op = "getJobsData" /\ calls[1].registered = "MockController"
    /\ calls[2].op = "getJobStatus" /\ calls[2].registered = "MockController"
    /\ cloudController = "DefaultController"

(***************************************************************************)
(* C10: overlapping calls do not interfere.  Whatever the order in which   *)
(* the transport settles the requests, the future of a call settles at     *)
(* most once, stays pending as long as its own request is pending, and     *)
(* its outcome is fixed by the reply to its own request: the reply itself  *)
(* for getJobsData and startJob, the decoded result or the invalid         *)
(* response error for run, the transport's error when the request failed.  *)
(***************************************************************************)
C10_CallsDoNotInterfere ==
    /\ \A i \in DOMAIN calls :
          /\ calls[i].settled <= 1
          /\ calls[i].settled = 1 <=> calls[i].state \in {"resolved", "rejected"}
    /\ \A r \in DOMAIN requests :
          LET call == calls[requests[r].call]
              reply == requests[r].reply
          IN /\ requests[r].state = "pending" => call.state = "pending"
             /\ requests[r].state = "rejected" =>
                   call.state = "rejected" /\ call.value = reply
             /\ (requests[r].state = "resolved" /\ requests[r].via # "run") =>
                   call.state = "resolved" /\ call.value = reply
             /\ (requests[r].state = "resolved" /\ requests[r].via = "run"
                    /\ "result" \in DOMAIN reply.f) =>
                   call.state = "resolved" /\ call.value = decode(reply).f["result"]
             /\ (requests[r].state = "resolved" /\ requests[r].via = "run"
                    /\ MappingWithoutResult(reply)) =>
                   call.state = "rejected" /\ call.value = InvalidResponseError

\* two overlapping calls, the second settled first and the two differently
C10_Witness ==
    /\ Len(requests) = 2
    /\ requests[1].call = 1 /\ requests[2].call = 2
    /\ requests[1].via = "run" /\ requests[2].via = "run"
    /\ requests[1].state = "pending" /\ calls[1].state = "pending"
    /\ requests[2].reply = FooReply /\ calls[2].state = "rejected"

====
